---- MODULE Spec2Model ----
(***************************************************************************)
(* A model of the operation-based CRDT engine of src/crdts/src/replicant.rs *)
(* (CRDT<Nat>): signed operations whose counters chain the signature of the *)
(* author's previous operation, the per-replica apply loop with its buffer  *)
(* of not-yet-applied operations, local authoring (apply_desc) and flush.   *)
(***************************************************************************)
EXTENDS Integers, Sequences, FiniteSets, TLC

\* ---------------------------------------------------------------- bounds
\* Total number of apply_desc calls made in a behaviour, over all accounts.
MaxDescs == 3
\* The same when authors sign two payloads with one counter (SpecFork).
MaxDescsFork == 2
\* The same when an account writes on several replicas (SpecDevices).
MaxDescsDevices == 2
\* The number of times the driver is started on the project directory.
MaxSessions == 3
\* The same when authors continue forks and write for other instances
\* (SpecByzantine).
MaxDescsByzantine == 2
\* The same under a transport that tampers (SpecTamper).
MaxDescsTamper == 2

\* The largest value a Nat holds. Nat.value is a u32; the model keeps the
\* saturating arithmetic and narrows the width, so that sums that stay below
\* the maximum, reach it exactly and exceed it all occur within MaxDescs
\* descriptions.
NatMax == 7

Replicas == {1, 2}
PubKeys == {"A", "B"}
\* The descriptions handed to apply_desc: a small one and one near the maximum.
Descriptions == {2, NatMax - 2}
\* The initial values a CRDTInfo<Nat> is created with.
InitialValues == {1}
\* The uuid of the CRDT instance the replicas are created from.
InstanceId == 1

VARIABLES
    crdt,       \* crdt[r]: the CRDT<Nat> struct of replica r
    panicked,   \* panicked[r]: a call on replica r panicked (the replica, moved into the call, is gone)
    authored,   \* authored[k]: the operations the account with public key k created, in creation order
    sent,       \* the operations handed out by flush(): what a transport can deliver
    delivered,  \* delivered[r]: the operations CRDT::apply ingested on replica r
    applied,    \* applied[r]: the operations that took the Some(Equal) branch on r, in order
    clock,      \* clock[r]: the wall clock SystemTime::now() reads on r's machine
    nat,        \* a Nat value folded with two descriptions, in both orders
    disk        \* the project directory: operation files, and the processes that have it open

vars == <<crdt, panicked, authored, sent, delivered, applied, clock, nat, disk>>

\* An insert that drops every other key of the map.
MapInsert_alone(m, k, v) == [x \in {k} |-> v]

\* ------------------------------------------------------------- hash maps
EmptyMap == [k \in {} |-> 0]

MapInsert(m, k, v) == [x \in (DOMAIN m) \cup {k} |-> IF x = k THEN v ELSE m[x]]

\* A remove that leaves the entry in the map.
MapRemove_keeps(m, k) == m

MapRemove(m, k) == [x \in (DOMAIN m) \ {k} |-> m[x]]

\* ------------------------------------------------------------ signatures
\* The secret key of the keypair whose public key is pk.
SecKeyOf(pk) == <<"sk", pk>>

\* bincode::serialize of an OperationCounted: its fields in declaration order.
serialize(payload) == <<payload.counter, payload.time, payload.contents>>

\* sign::sign_detached: deterministic in the key and the message.
sign_detached(msg, sk) == [signer |-> sk, msg |-> msg]

\* sign::verify_detached: only the signature made over msg with pk's secret key verifies.
verify_detached(sig, msg, pk) == sig = sign_detached(msg, SecKeyOf(pk))

sign(payload, user_secret_key) == sign_detached(serialize(payload), user_secret_key)

\* A verify_sig that checks who signed and not what was signed.
verify_sig_ignores_payload(payload, signature, user_public_key) ==
    signature.signer = SecKeyOf(user_public_key)

\* A verify_sig that accepts every signature.
verify_sig_accept_all(payload, signature, user_public_key) == TRUE

verify_sig(payload, signature, user_public_key) ==
    verify_detached(signature, serialize(payload), user_public_key)

\* -------------------------------------------------------------- counters
\* Counter::Initial(id) is <<"Initial", id>>, Counter::Operation(n, sig) is
\* <<"Operation", n, sig>>.
CounterInitial(id) == <<"Initial", id>>

CounterOperation(n, sig) == <<"Operation", n, sig>>

is_initial(counter) == counter[1] = "Initial"

\* OperationData::Initial is <<"Initial">>, OperationData::Desc(d) is <<"Desc", d>>.
DataInitial == <<"Initial">>

DataDesc(d) == <<"Desc", d>>

data_is_initial(op_data) == op_data[1] = "Initial"

\* A partial_cmp that compares the sequence numbers the wrong way round.
partial_cmp_reversed(c1, c2) ==
    CASE is_initial(c1) /\ ~is_initial(c2) -> "Less"
      [] ~is_initial(c1) /\ is_initial(c2) -> "Greater"
      [] is_initial(c1) /\ is_initial(c2) -> IF c1[2] = c2[2] THEN "Equal" ELSE "None"
      [] OTHER -> IF c1[2] = c2[2]
                  THEN (IF c1[3] = c2[3] THEN "Equal" ELSE "None")
                  ELSE (IF c1[2] < c2[2] THEN "Greater" ELSE "Less")

\* A partial_cmp that compares the variants and never the sequence numbers.
partial_cmp_variant_only(c1, c2) ==
    CASE is_initial(c1) /\ ~is_initial(c2) -> "Less"
      [] ~is_initial(c1) /\ is_initial(c2) -> "Greater"
      [] OTHER -> "Equal"

\* impl PartialOrd for Counter: "None" stands for Option::None.
partial_cmp(c1, c2) ==
    CASE is_initial(c1) /\ ~is_initial(c2) -> "Less"
      [] ~is_initial(c1) /\ is_initial(c2) -> "Greater"
      [] is_initial(c1) /\ is_initial(c2) -> IF c1[2] = c2[2] THEN "Equal" ELSE "None"
      [] OTHER -> IF c1[2] = c2[2]
                  THEN (IF c1[3] = c2[3] THEN "Equal" ELSE "None")
                  ELSE (IF c1[2] < c2[2] THEN "Less" ELSE "Greater")

\* An increment that numbers the first described operation 1.
increment_starts_at_one(counter, sig) ==
    IF is_initial(counter)
    THEN CounterOperation(1, sig)
    ELSE CounterOperation(counter[2] + 1, sig)

\* An increment that forgets to add one to the sequence number.
increment_keeps_count(counter, sig) ==
    IF is_initial(counter)
    THEN CounterOperation(0, sig)
    ELSE CounterOperation(counter[2], sig)

\* Counter::increment
increment(counter, sig) ==
    IF is_initial(counter)
    THEN CounterOperation(0, sig)
    ELSE CounterOperation(counter[2] + 1, sig)

\* ------------------------------------------------------------------- Nat
\* u32::wrapping_add in place of saturating_add.
wrapping_add(a, b) == (a + b) % (NatMax + 1)

\* u32::saturating_add
saturating_add(a, b) == IF a + b > NatMax THEN NatMax ELSE a + b

\* A fold that replaces the value by the description.
apply_overwrites(self, desc, user_pub_key, counter) == desc

\* impl Applyable for Nat: the author and the counter are ignored.
apply_without_idempotency_check(self, desc, user_pub_key, counter) ==
    saturating_add(self, desc)

\* -------------------------------------------------------------- creation
create_account(user_pub_key, user_sec_key) ==
    [user_pub_key |-> user_pub_key, user_sec_key |-> user_sec_key]

create_crdt_info(applyable, id) == [id |-> id, initial_value |-> applyable]

create_crdt(info) ==
    [info |-> info,
     state_vector |-> EmptyMap,
     not_yet_applied_operations |-> EmptyMap,
     recently_created_and_applied_operations |-> EmptyMap,
     value |-> info.initial_value]

\* CRDT::create_operation: the operation and the counter of the next one.
\* The assert!(op_data.is_initial() == counter.is_initial()) holds at both
\* call sites; now is the value SystemTime::now() returns.
create_operation(account, op_data, counter, now) ==
    LET payload == [counter |-> counter, time |-> now, contents |-> op_data]
        op == [user_pub_key |-> account.user_pub_key,
               data |-> [signature |-> sign(payload, account.user_sec_key),
                         payload |-> payload]]
    IN  <<op, increment(counter, op.data.signature)>>

create_initial_operation(self, account, now) ==
    create_operation(account, DataInitial, CounterInitial(self.info.id), now)

create_operation_from_description(account, desc, counter, now) ==
    create_operation(account, DataDesc(desc), counter, now)

\* ----------------------------------------------------------------- apply
\* A state_vector entry that is inserted anew on every call.
state_vector_entry_reset(self, user_pub_key) == CounterInitial(self.info.id)

\* The expected counter of user_pub_key: state_vector.entry(k).or_insert(Initial(id)).
state_vector_entry(self, user_pub_key) ==
    IF user_pub_key \in DOMAIN self.state_vector
    THEN self.state_vector[user_pub_key]
    ELSE CounterInitial(self.info.id)

\* A buffer that is created anew on every call.
not_yet_applied_entry_fresh(self, user_pub_key) == EmptyMap

\* not_yet_applied_operations.entry(k).or_default()
not_yet_applied_entry(self, user_pub_key) ==
    IF user_pub_key \in DOMAIN self.not_yet_applied_operations
    THEN self.not_yet_applied_operations[user_pub_key]
    ELSE EmptyMap

\* drain().collect() followed by sort(): the hash map hands its entries over
\* in an arbitrary order and the stable sort orders them by the key's
\* PartialOrd `lt`, so two keys that are not Less either way keep the order the
\* map gave them. These are the vectors of keys that can come out.
not_yet_applied_operations_ordered(m) ==
    LET n == Cardinality(DOMAIN m)
    IN  {s \in [1..n -> DOMAIN m] :
            /\ \A i, j \in 1..n : i # j => s[i] # s[j]
            /\ \A i, j \in 1..n : i < j => partial_cmp(s[j], s[i]) # "Less"}

\* The for loop of CRDT::apply from position i on. st holds the loop's
\* mutable locals: state_vector_counter, accumulator, operations_cant_do_yet,
\* and what the loop did: the operations applied, the arguments of each call
\* of apply_without_idempotency_check, and whether the None arm panicked.
RECURSIVE apply_loop(_, _, _, _, _)
apply_loop(ordered, i, m, user_pub_key, st) ==
    IF i > Len(ordered) \/ st.panicked
    THEN st
    ELSE LET counter == ordered[i]
             op == m[counter]
             cmp == partial_cmp(counter, st.state_vector_counter)
         IN  CASE cmp = "Less" ->
                    apply_loop(ordered, i + 1, m, user_pub_key, st)
               [] cmp = "Greater" ->
                    apply_loop(ordered, i + 1, m, user_pub_key,
                        [st EXCEPT !.operations_cant_do_yet = MapInsert(@, counter, op)])
               [] cmp = "Equal" ->
                    LET next == increment(st.state_vector_counter, op.signature)
                        applied_op == [user_pub_key |-> user_pub_key, data |-> op]
                    IN  IF data_is_initial(op.payload.contents)
                        THEN apply_loop(ordered, i + 1, m, user_pub_key,
                                [st EXCEPT !.state_vector_counter = next,
                                           !.applied = Append(@, applied_op)])
                        ELSE apply_loop(ordered, i + 1, m, user_pub_key,
                                [st EXCEPT !.state_vector_counter = next,
                                           !.accumulator = apply_without_idempotency_check(
                                                @, op.payload.contents[2], user_pub_key, next),
                                           !.applied = Append(@, applied_op),
                                           !.folds = Append(@, <<op.payload.contents[2],
                                                                 user_pub_key, next>>)])
               [] OTHER -> [st EXCEPT !.panicked = TRUE]

\* What a panicking call leaves: the replica was moved into the call and is
\* dropped while unwinding, so nothing of the call's work is kept.
Panic(self) == [panicked |-> TRUE, crdt |-> self, applied |-> <<>>, folds |-> <<>>]

\* CRDT::apply once the sorted vector is known.
apply_with(self, op, ordered, m) ==
    LET user_pub_key == op.user_pub_key
        end == apply_loop(ordered, 1, m, user_pub_key,
                   [state_vector_counter |-> state_vector_entry(self, user_pub_key),
                    accumulator |-> self.value,
                    operations_cant_do_yet |-> EmptyMap,
                    applied |-> <<>>,
                    folds |-> <<>>,
                    panicked |-> FALSE])
    IN  IF end.panicked
        THEN Panic(self)
        ELSE [panicked |-> FALSE,
              crdt |-> [self EXCEPT
                  !.state_vector = MapInsert(@, user_pub_key, end.state_vector_counter),
                  !.not_yet_applied_operations =
                      IF end.operations_cant_do_yet = EmptyMap
                      THEN MapRemove(@, user_pub_key)
                      ELSE MapInsert(@, user_pub_key, end.operations_cant_do_yet),
                  !.value = end.accumulator],
              applied |-> end.applied,
              folds |-> end.folds]

\* CRDT::apply: the set of its possible outcomes (one per order the sorted
\* vector can have; a single one when the buffered counters are comparable).
apply(self, op) ==
    IF verify_sig(op.data.payload, op.data.signature, op.user_pub_key)
    THEN LET m == MapInsert(not_yet_applied_entry(self, op.user_pub_key),
                            op.data.payload.counter, op.data)
         IN  {apply_with(self, op, ordered, m) :
                 ordered \in not_yet_applied_operations_ordered(m)}
    ELSE {Panic(self)}

\* ------------------------------------------------------------ apply_desc
\* The second half of CRDT::apply_desc: create the operation for desc at
\* counter, apply it, record it in recently_created_and_applied_operations.
\* before: what the first half created, applied and folded.
apply_desc_from(self, new_crdt, account, desc, counter, now, before) ==
    LET op == create_operation_from_description(account, desc, counter, now)[1]
    IN  {IF o.panicked
         THEN Panic(self) @@ [created |-> <<>>]
         ELSE [panicked |-> FALSE,
               crdt |-> [o.crdt EXCEPT !.recently_created_and_applied_operations =
                            MapInsert(@, op.data.payload.counter, op)],
               applied |-> before.applied \o o.applied,
               folds |-> before.folds \o o.folds,
               created |-> Append(before.created, op)] :
         o \in apply(new_crdt, op)}

\* CRDT::apply_desc: the set of its possible outcomes. now is the wall clock
\* at the first SystemTime::now(); a second read comes one tick later.
apply_desc(self, account, desc, now) ==
    LET self1 == [self EXCEPT !.state_vector =
                     MapInsert(@, account.user_pub_key,
                               state_vector_entry(self, account.user_pub_key))]
        counter == self1.state_vector[account.user_pub_key]
    IN  IF is_initial(counter)
        THEN LET c == create_initial_operation(self1, account, now)
             IN  UNION {IF o.panicked
                        THEN {Panic(self) @@ [created |-> <<>>]}
                        ELSE apply_desc_from(self,
                                 [o.crdt EXCEPT !.recently_created_and_applied_operations =
                                     MapInsert(@, c[1].data.payload.counter, c[1])],
                                 account, desc, c[2], now + 1,
                                 [applied |-> o.applied, folds |-> o.folds,
                                  created |-> <<c[1]>>]) :
                        o \in apply(self1, c[1])}
        ELSE apply_desc_from(self, self1, account, desc, counter, now,
                 [applied |-> <<>>, folds |-> <<>>, created |-> <<>>])

\* A flush that hands out a copy of the outbox and leaves it in place.
flush_keeps_outbox(self) ==
    [output |-> self.recently_created_and_applied_operations,
     crdt |-> self]

\* A flush that takes the state_vector away together with the outbox.
flush_takes_state_vector(self) ==
    [output |-> self.recently_created_and_applied_operations,
     crdt |-> [self EXCEPT !.recently_created_and_applied_operations = EmptyMap,
                           !.state_vector = EmptyMap]]

\* CRDT::flush: the map handed out and the replica left behind.
flush(self) ==
    [output |-> self.recently_created_and_applied_operations,
     crdt |-> [self EXCEPT !.recently_created_and_applied_operations = EmptyMap]]

\* ------------------------------------------------------------ the system
\* The account of each keypair, and the replica its owner writes on.
AccountOf(k) == create_account(k, SecKeyOf(k))

Owner(k) == IF k = "A" THEN 1 ELSE 2

Range(f) == {f[x] : x \in DOMAIN f}

\* The number of descriptions authored so far, over all accounts.
NumDescs ==
    Cardinality({<<k, i>> \in PubKeys \X (1..(2 * MaxDescs)) :
        /\ i <= Len(authored[k])
        /\ ~data_is_initial(authored[k][i].data.payload.contents)})

\* What a transport can do to an operation on its way: flip the signature,
\* replace the description, or name another author. None of the results
\* carries a signature that verifies.
Tampered(op) ==
    {[op EXCEPT !.data.signature.signer = SecKeyOf("nobody")]}
    \cup {[op EXCEPT !.data.payload.contents = DataDesc(d)] :
            d \in {x \in Descriptions : DataDesc(x) # op.data.payload.contents}}
    \cup {[op EXCEPT !.user_pub_key = k] : k \in PubKeys \ {op.user_pub_key}}

\* What the transport can hand to apply: the flushed operations, and, when
\* the transport is not trusted, tampered copies of them.
Deliverable == sent

DeliverableTampered == UNION {Tampered(op) : op \in sent}

\* What an author who signs twice can put on the transport beside a flushed
\* operation: operations with the counter and the time of op, another
\* description, and a signature made with the author's own key.
Forks(op) ==
    IF ~data_is_initial(op.data.payload.contents)
    THEN {create_operation_from_description(AccountOf(op.user_pub_key), d,
                                            op.data.payload.counter,
                                            op.data.payload.time)[1] :
            d \in {x \in Descriptions : DataDesc(x) # op.data.payload.contents}}
    ELSE {}

DeliverableForked == UNION {Forks(op) : op \in sent}

\* ------------------------------------------------------------ the driver
\* impl Display for Counter, used for the file names: "_initial", or the
\* number in decimal, padded with zeros on the left to six digits. The
\* signature a counter embeds is not part of the name.
RECURSIVE decimal(_)
decimal(n) == IF n < 10 THEN <<n>> ELSE Append(decimal(n \div 10), n % 10)

RECURSIVE pad_zeros(_, _)
pad_zeros(digits, width) ==
    IF Len(digits) >= width THEN digits ELSE pad_zeros(<<0>> \o digits, width)

\* A Display that leaves the number out of the name.
counter_to_string_no_number(counter) == <<"_initial">>

counter_to_string(counter) ==
    IF is_initial(counter) THEN <<"_initial">> ELSE pad_zeros(decimal(counter[2]), 6)

\* The directory of an author: base64 of the serialized public key, and the
\* decoding get_operations_in_path does.
user_dir(user_pub_key) == <<"base64", user_pub_key>>

user_of_dir(dir) == dir[2]

\* The path of the file save_operations writes for an operation.
to_write_file_path(counter, operation) ==
    <<"operations", user_dir(operation.user_pub_key),
      counter_to_string(counter) \o <<".pennyop">>>>

\* The orders in which a hash map or a directory can hand over the elements
\* of set S.
Orders(S) ==
    {s \in [1..Cardinality(S) -> S] : \A i, j \in DOMAIN s : i # j => s[i] # s[j]}

\* save_operations from position i of the drained map on: stop with a panic
\* at the first path that exists, write the file otherwise.
RECURSIVE save_loop(_, _, _, _)
save_loop(order, i, operations, files) ==
    IF i > Len(order)
    THEN [panicked |-> FALSE, files |-> files]
    ELSE LET counter == order[i]
             operation == operations[counter]
             path == to_write_file_path(counter, operation)
         IN  IF path \in DOMAIN files
             THEN [panicked |-> TRUE, files |-> files]
             ELSE save_loop(order, i + 1, operations,
                            MapInsert(files, path, operation.data))

\* A save_loop that writes every file, existing or not.
RECURSIVE save_loop_overwrites(_, _, _, _)
save_loop_overwrites(order, i, operations, files) ==
    IF i > Len(order)
    THEN [panicked |-> FALSE, files |-> files]
    ELSE save_loop_overwrites(order, i + 1, operations,
             MapInsert(files, to_write_file_path(order[i], operations[order[i]]),
                       operations[order[i]].data))

save_operations_overwrites(operations, files) ==
    {save_loop_overwrites(order, 1, operations, files) :
        order \in Orders(DOMAIN operations)}

\* save_operations: its possible outcomes, one per order of operations.drain().
save_operations(operations, files) ==
    {save_loop(order, 1, operations, files) : order \in Orders(DOMAIN operations)}

\* get_operations_in_path: the operations of one author directory, in the
\* orders read_dir can list its files.
get_operations_in_path(dir, files) ==
    LET paths == {path \in DOMAIN files : path[2] = dir}
    IN  {[i \in DOMAIN order |->
             [user_pub_key |-> user_of_dir(dir), data |-> files[order[i]]]] :
         order \in Orders(paths)}

\* The vectors all_operations can be: the directories in the order read_dir
\* lists them, from position i on, each followed by its operations.
RECURSIVE all_operations(_, _, _)
all_operations(dirs, i, files) ==
    IF i > Len(dirs)
    THEN {<<>>}
    ELSE {ops \o rest : ops \in get_operations_in_path(dirs[i], files),
                        rest \in all_operations(dirs, i + 1, files)}

\* all_operations.into_iter().fold(crdt, CRDT::apply): the outcomes, with the
\* operations applied on the way; a panic of one apply ends the fold.
RECURSIVE fold_apply(_, _)
fold_apply(st, ops) ==
    IF ops = <<>> \/ st.panicked
    THEN {st}
    ELSE UNION {fold_apply([panicked |-> o.panicked, crdt |-> o.crdt,
                            applied |-> st.applied \o o.applied], Tail(ops)) :
                o \in apply(st.crdt, Head(ops))}

\* restore_operations: its possible outcomes.
restore_operations(self, files) ==
    UNION {fold_apply([panicked |-> FALSE, crdt |-> self, applied |-> <<>>], ops) :
           ops \in UNION {all_operations(dirs, 1, files) :
                          dirs \in Orders({path[2] : path \in DOMAIN files})}}

\* The project directory after the project file was created: no operation
\* files, no process running.
new_project ==
    [files |-> EmptyMap,
     open |-> [r \in Replicas |-> FALSE],
     sessions |-> 0,
     ended_with |-> <<>>]

\* A Nat value self and two descriptions, neither folded yet: first_second
\* is to hold self folded with first and then second, second_first the same in
\* the other order.
nat_inputs(self, first, second) ==
    [self |-> self, first |-> first, second |-> second,
     first_second |-> self, second_first |-> self, folded |-> 0]

Init ==
    /\ nat = nat_inputs(0, 0, 0)
    /\ disk = new_project
    /\ \E v \in InitialValues :
          crdt = [r \in Replicas |-> create_crdt(create_crdt_info(v, InstanceId))]
    /\ panicked = [r \in Replicas |-> FALSE]
    /\ authored = [k \in PubKeys |-> <<>>]
    /\ sent = {}
    /\ delivered = [r \in Replicas |-> {}]
    /\ applied = [r \in Replicas |-> <<>>]
    /\ clock = [r \in Replicas |-> 1]

\* crdt = crdt.apply_desc(&account, desc) on replica r with the account of k.
\* Each machine's wall clock advances by one tick per operation created, so
\* the operations of an account carry distinct, increasing times; time is
\* signed with the payload and never read by apply.
ApplyDesc(r, k, desc) ==
    /\ ~panicked[r]
    /\ NumDescs < MaxDescs
    /\ \E o \in apply_desc(crdt[r], AccountOf(k), desc, clock[r]) :
          /\ crdt' = [crdt EXCEPT ![r] = o.crdt]
          /\ panicked' = [panicked EXCEPT ![r] = o.panicked]
          /\ authored' = [authored EXCEPT ![k] = @ \o o.created]
          /\ delivered' = [delivered EXCEPT ![r] = @ \cup Range(o.created)]
          /\ applied' = [applied EXCEPT ![r] = @ \o o.applied]
          /\ clock' = [clock EXCEPT ![r] = @ + Len(o.created)]
    /\ UNCHANGED <<sent, nat, disk>>

\* crdt = crdt.apply(op) on replica r, op coming from the transport.
Apply(r, op) ==
    /\ ~panicked[r]
    /\ \E o \in apply(crdt[r], op) :
          /\ crdt' = [crdt EXCEPT ![r] = o.crdt]
          /\ panicked' = [panicked EXCEPT ![r] = o.panicked]
          /\ delivered' = [delivered EXCEPT ![r] = IF o.panicked THEN @ ELSE @ \cup {op}]
          /\ applied' = [applied EXCEPT ![r] = @ \o o.applied]
    /\ UNCHANGED <<authored, sent, clock, nat, disk>>

\* crdt.flush() on replica r; what it returns goes to the transport.
Flush(r) ==
    /\ ~panicked[r]
    /\ LET f == flush(crdt[r])
       IN  /\ crdt' = [crdt EXCEPT ![r] = f.crdt]
           /\ sent' = sent \cup Range(f.output)
    /\ UNCHANGED <<panicked, authored, delivered, applied, clock, nat, disk>>

Author == \E r \in Replicas, k \in PubKeys, d \in Descriptions :
              Owner(k) = r /\ ApplyDesc(r, k, d)

Deliver == \E r \in Replicas : \E op \in Deliverable : Apply(r, op)

FlushOutbox == \E r \in Replicas : Flush(r)

DeliverTampered == \E r \in Replicas : \E op \in DeliverableTampered : Apply(r, op)

\* Honest accounts, each writing on its own replica, and a transport that
\* reorders and duplicates.
Next == Author \/ Deliver \/ FlushOutbox

Spec == Init /\ [][Next]_vars

AuthorTamper == NumDescs < MaxDescsTamper /\ Author

\* The same with a transport that also tampers with operations.
NextTamper == AuthorTamper \/ Deliver \/ FlushOutbox \/ DeliverTampered

SpecTamper == Init /\ [][NextTamper]_vars

DeliverForked == \E r \in Replicas : \E op \in DeliverableForked : Apply(r, op)

AuthorFork == NumDescs < MaxDescsFork /\ Author

\* Authors that sign two different payloads with one counter, and a transport
\* that delivers both.
NextFork == AuthorFork \/ Deliver \/ FlushOutbox \/ DeliverForked

SpecFork == Init /\ [][NextFork]_vars

\* The replica that several accounts write on.
SharedReplica == 1

AuthorShared == \E k \in PubKeys, d \in Descriptions : ApplyDesc(SharedReplica, k, d)

\* Honest accounts that all write on one replica, the other replicas only
\* receive.
NextShared == AuthorShared \/ Deliver \/ FlushOutbox

SpecShared == Init /\ [][NextShared]_vars

\* Replicas on machines whose wall clocks read different times.
InitDevices ==
    /\ nat = nat_inputs(0, 0, 0)
    /\ disk = new_project
    /\ \E v \in InitialValues :
          crdt = [r \in Replicas |-> create_crdt(create_crdt_info(v, InstanceId))]
    /\ panicked = [r \in Replicas |-> FALSE]
    /\ authored = [k \in PubKeys |-> <<>>]
    /\ sent = {}
    /\ delivered = [r \in Replicas |-> {}]
    /\ applied = [r \in Replicas |-> <<>>]
    /\ clock = [r \in Replicas |-> 1 + (r - 1) * (2 * MaxDescs + 2)]

AuthorDevices ==
    /\ NumDescs < MaxDescsDevices
    /\ \E r \in Replicas, k \in PubKeys, d \in Descriptions : ApplyDesc(r, k, d)

\* Honest accounts whose keypair is used on every replica: an account's
\* operations reach a replica both from its own apply_desc calls and from the
\* transport.
NextDevices == AuthorDevices \/ Deliver \/ FlushOutbox

SpecDevices == InitDevices /\ [][NextDevices]_vars

\* ------------------------------------------------------------ other histories
\* The uuid of another CRDT instance.
OtherInstanceId == 2

\* The operations an account signs when it authors the contents of ops, with
\* their times, one after the other starting at counter: each operation
\* carries the counter create_operation returned for the one before.
RECURSIVE rechain(_, _, _)
rechain(account, ops, counter) ==
    IF ops = <<>>
    THEN <<>>
    ELSE LET c == create_operation(account, Head(ops).data.payload.contents,
                                   counter, Head(ops).data.payload.time)
         IN  <<c[1]>> \o rechain(account, Tail(ops), c[2])

\* What an account that authored its operations for the instance
\* OtherInstanceId as well can put on the transport beside its flushed
\* operations.
DeliverableForeign ==
    UNION {{rechain(AccountOf(k), authored[k], CounterInitial(OtherInstanceId))[i] :
               i \in {j \in DOMAIN authored[k] : authored[k][j] \in sent}} :
           k \in PubKeys}

\* What an author who signed a second payload d at the counter of its i-th
\* operation, and went on authoring from there, can put on the transport
\* beside its flushed operations: the operations that continue the fork.
DeliverableContinued ==
    UNION {UNION {UNION {
        LET account == AccountOf(k)
            fork == [authored[k][i] EXCEPT !.data.payload.contents = DataDesc(d)]
            chain == rechain(account,
                             <<fork>> \o SubSeq(authored[k], i + 1, Len(authored[k])),
                             authored[k][i].data.payload.counter)
        IN  {chain[j] : j \in {x \in 2..Len(chain) : authored[k][i + x - 1] \in sent}} :
        d \in {x \in Descriptions :
                 /\ ~data_is_initial(authored[k][i].data.payload.contents)
                 /\ DataDesc(x) # authored[k][i].data.payload.contents}} :
        i \in DOMAIN authored[k]} :
        k \in PubKeys}

\* crdt = crdt.apply(op) on replica r, without the record of what was
\* delivered.
Receive(r, op) ==
    /\ ~panicked[r]
    /\ \E o \in apply(crdt[r], op) :
          /\ crdt' = [crdt EXCEPT ![r] = o.crdt]
          /\ panicked' = [panicked EXCEPT ![r] = o.panicked]
          /\ applied' = [applied EXCEPT ![r] = @ \o o.applied]
    /\ UNCHANGED <<authored, sent, delivered, clock, nat, disk>>

ReceiveFlushed == \E r \in Replicas : \E op \in Deliverable : Receive(r, op)

ReceiveForked == \E r \in Replicas : \E op \in DeliverableForked : Receive(r, op)

ReceiveContinued == \E r \in Replicas : \E op \in DeliverableContinued : Receive(r, op)

ReceiveForeign == \E r \in Replicas : \E op \in DeliverableForeign : Receive(r, op)

\* The account that signs several histories.
ByzantineKey == "A"

AuthorByzantine ==
    /\ NumDescs < MaxDescsByzantine
    /\ \E d \in Descriptions : ApplyDesc(Owner(ByzantineKey), ByzantineKey, d)

\* Authors that sign several histories, for this instance and for another
\* one, and a transport that delivers all of them.
NextByzantine ==
    \/ AuthorByzantine
    \/ FlushOutbox
    \/ ReceiveFlushed
    \/ ReceiveForked
    \/ ReceiveContinued
    \/ ReceiveForeign

SpecByzantine == Init /\ [][NextByzantine]_vars

\* ------------------------------------------------------------ sessions
\* The keypair get_keypair returns for the project directory.
DirKey == "A"

\* main, up to the call of run, in process r: create the replica from the
\* project file and restore the operations of the directory.
OpenSession(r) ==
    /\ ~disk.open[r]
    /\ ~panicked[r]
    /\ disk.sessions < MaxSessions
    /\ \E o \in restore_operations(create_crdt(crdt[r].info), disk.files) :
          /\ crdt' = [crdt EXCEPT ![r] = o.crdt]
          /\ panicked' = [panicked EXCEPT ![r] = o.panicked]
          /\ applied' = [applied EXCEPT ![r] = o.applied]
          /\ delivered' = [delivered EXCEPT ![r] = Range(o.applied)]
          /\ disk' = [disk EXCEPT !.open[r] = ~o.panicked, !.sessions = @ + 1]
    /\ UNCHANGED <<authored, sent, clock, nat>>

\* One turn of the loop of run in process r: an increment was typed.
RunSession(r) ==
    /\ disk.open[r]
    /\ \E d \in Descriptions : ApplyDesc(r, DirKey, d)

\* The end of run in process r: save_operations(crdt.flush(), ..), after
\* which the process ends and its replica is gone.
CloseSession(r) ==
    /\ disk.open[r]
    /\ ~panicked[r]
    /\ \E out \in save_operations(flush(crdt[r]).output, disk.files) :
          /\ disk' = [disk EXCEPT !.files = out.files,
                                  !.open[r] = FALSE,
                                  !.ended_with = <<crdt[r].value>>]
          /\ panicked' = [panicked EXCEPT ![r] = out.panicked]
    /\ crdt' = [crdt EXCEPT ![r] = create_crdt(crdt[r].info)]
    /\ applied' = [applied EXCEPT ![r] = <<>>]
    /\ delivered' = [delivered EXCEPT ![r] = {}]
    /\ UNCHANGED <<authored, sent, clock, nat>>

Open == \E r \in Replicas : OpenSession(r)

OpenAlone == \E r \in Replicas : (\A q \in Replicas : ~disk.open[q]) /\ OpenSession(r)

Run == \E r \in Replicas : RunSession(r)

Close == \E r \in Replicas : CloseSession(r)

\* The driver started again and again on one project directory, one process
\* at a time.
NextSessions == OpenAlone \/ Run \/ Close

SpecSessions == InitDevices /\ [][NextSessions]_vars

\* The same with processes that run at the same time.
NextOverlap == Open \/ Run \/ Close

SpecOverlap == InitDevices /\ [][NextOverlap]_vars

\* ------------------------------------------------------------ Nat alone
\* The authors and counters a fold of Nat can be called with.
FoldCounters ==
    {CounterInitial(InstanceId)}
    \cup {CounterOperation(n, sign_detached(<<>>, SecKeyOf(k))) :
            n \in 0..1, k \in PubKeys}

\* Every Nat value and every pair of descriptions, nothing folded yet.
InitNat ==
    /\ \E self, first, second \in 0..NatMax : nat = nat_inputs(self, first, second)
    /\ disk = new_project
    /\ \E v \in InitialValues :
          crdt = [r \in Replicas |-> create_crdt(create_crdt_info(v, InstanceId))]
    /\ panicked = [r \in Replicas |-> FALSE]
    /\ authored = [k \in PubKeys |-> <<>>]
    /\ sent = {}
    /\ delivered = [r \in Replicas |-> {}]
    /\ applied = [r \in Replicas |-> <<>>]
    /\ clock = [r \in Replicas |-> 1]

\* One fold on each side: the side that starts with nat.first folds it, the
\* other side folds nat.second.
FoldOne ==
    /\ nat.folded = 0
    /\ \E k \in PubKeys, c \in FoldCounters :
          nat' = [nat EXCEPT
              !.first_second = apply_without_idempotency_check(@, nat.first, k, c),
              !.second_first = apply_without_idempotency_check(@, nat.second, k, c),
              !.folded = 1]
    /\ UNCHANGED <<crdt, panicked, authored, sent, delivered, applied, clock, disk>>

\* The second fold on each side, with the description not folded yet.
FoldOther ==
    /\ nat.folded = 1
    /\ \E k \in PubKeys, c \in FoldCounters :
          nat' = [nat EXCEPT
              !.first_second = apply_without_idempotency_check(@, nat.second, k, c),
              !.second_first = apply_without_idempotency_check(@, nat.first, k, c),
              !.folded = 2]
    /\ UNCHANGED <<crdt, panicked, authored, sent, delivered, applied, clock, disk>>

NextNat == FoldOne \/ FoldOther

SpecNat == InitNat /\ [][NextNat]_vars

\* ======================================================================
\* Properties
\* ======================================================================
\* Vocabulary of the properties below.
\* What r buffers for author a, and the counter r expects next from a.
Pending(r, a) ==
    IF a \in DOMAIN crdt[r].not_yet_applied_operations
    THEN crdt[r].not_yet_applied_operations[a]
    ELSE EmptyMap

Expected(r, a) ==
    IF a \in DOMAIN crdt[r].state_vector
    THEN crdt[r].state_vector[a]
    ELSE CounterInitial(crdt[r].info.id)

CounterOf(op) == op.data.payload.counter

IsDesc(op) == ~data_is_initial(op.data.payload.contents)

DescOf(op) == op.data.payload.contents[2]

IsPrefix(s, t) == Len(s) <= Len(t) /\ s = SubSeq(t, 1, Len(s))

\* The operations of author a that took the Some(Equal) branch on r, in order,
\* and those of them that were folded (apply_without_idempotency_check).
AppliedBy(r, a) == SelectSeq(applied[r], LAMBDA o : o.user_pub_key = a)

FoldCalls(r, a) == SelectSeq(AppliedBy(r, a), IsDesc)

AuthoredDescs(a) == SelectSeq(authored[a], IsDesc)

\* The exact sum of the descriptions of the operations of ops.
RECURSIVE SumDescs(_)
SumDescs(ops) ==
    IF ops = <<>> THEN 0
    ELSE (IF IsDesc(Head(ops)) THEN DescOf(Head(ops)) ELSE 0) + SumDescs(Tail(ops))

Min(a, b) == IF a <= b THEN a ELSE b

\* The position of op in authored[a].
IndexOf(a, op) == CHOOSE i \in 1..Len(authored[a]) : authored[a][i] = op

\* tests::do_all: vs.into_iter().fold(i, CRDT::apply), the replicas it can end with.
RECURSIVE do_all(_, _)
do_all(i, vs) ==
    IF vs = <<>> THEN {i}
    ELSE UNION {do_all(o.crdt, Tail(vs)) : o \in {x \in apply(i, Head(vs)) : ~x.panicked}}

\* C1 (convergence): two replicas created from the same CRDTInfo that have
\* ingested the same set of operations of honest authors hold the same value,
\* whatever the order and the number of deliveries.
C1_Convergence ==
    \A r1, r2 \in Replicas :
        (~panicked[r1] /\ ~panicked[r2] /\ delivered[r1] = delivered[r2])
            => crdt[r1].value = crdt[r2].value

\* Both replicas hold the folded descriptions of both authors, which they
\* applied in different orders.
C1_Witness ==
    /\ delivered[1] = delivered[2]
    /\ \A a \in PubKeys : \A r \in Replicas : Len(FoldCalls(r, a)) >= 1
    /\ applied[1] # applied[2]

\* C2 (per-author causal order, at most once): on every replica and for every
\* author a, the sequence of fold calls made for a's operations is a prefix of
\* a's described operations in counter order; so is the whole sequence of a's
\* applied operations, the Initial one included.
C2_CausalOrder ==
    \A r \in Replicas : \A a \in PubKeys :
        /\ IsPrefix(FoldCalls(r, a), AuthoredDescs(a))
        /\ IsPrefix(AppliedBy(r, a), authored[a])

\* A replica that is not the author's has folded two operations of the author.
C2_Witness ==
    \E r \in Replicas : \E a \in PubKeys :
        Owner(a) # r /\ Len(FoldCalls(r, a)) >= 2

\* C3 (re-delivery is a no-op): apply of an operation that was already applied
\* on the replica returns the replica exactly as it was (value, state_vector,
\* not_yet_applied_operations and the outbox) and applies nothing.
C3_RedeliveryNoOp ==
    \A r \in Replicas : \A op \in Range(applied[r]) :
        \A o \in apply(crdt[r], op) :
            ~o.panicked /\ o.crdt = crdt[r] /\ o.applied = <<>>

\* A flushed operation that a replica has folded is delivered to it again while
\* the replica buffers a later operation of the same author, and comes back
\* unchanged.
C3_Witness ==
    \E r \in Replicas : \E op \in sent \cap Range(applied[r]) :
        /\ IsDesc(op)
        /\ Owner(op.user_pub_key) # r
        /\ Pending(r, op.user_pub_key) # EmptyMap
        /\ \E o \in apply(crdt[r], op) : o.crdt = crdt[r]

\* C4 (complete delivery empties the buffer): once every operation an author
\* has authored was delivered to a replica, nothing of the author is buffered,
\* all of them were applied in authoring order, and a replica that ingested
\* nothing else equals the one got by applying them in authoring order to a
\* fresh replica.
C4_CompleteDelivery ==
    \A r \in Replicas : \A a \in PubKeys :
        (authored[a] # <<>> /\ Range(authored[a]) \subseteq delivered[r])
            => /\ a \notin DOMAIN crdt[r].not_yet_applied_operations
               /\ AppliedBy(r, a) = authored[a]
               /\ (Owner(a) # r /\ delivered[r] = Range(authored[a]))
                      => do_all(create_crdt(crdt[r].info), authored[a]) = {crdt[r]}

\* A replica that authored nothing has been delivered the four operations of
\* the other author and nothing else.
C4_Witness ==
    \E r \in Replicas : \E a \in PubKeys :
        /\ Owner(a) # r
        /\ Len(authored[a]) >= 4
        /\ delivered[r] = Range(authored[a])

\* The descriptions folded into the value of r are those of applied[r].
ValueReflectsApplied(r) ==
    crdt[r].value = Min(crdt[r].info.initial_value + SumDescs(applied[r]), NatMax)

\* C5 (causal gate): while the i-th operation of author a has not been
\* delivered to r, every later operation of a that was delivered is held in
\* not_yet_applied_operations[a], none of them was applied, the expected
\* counter of a is not past the i-th, and the value holds the applied
\* descriptions only.
C5_CausalGate ==
    \A r \in Replicas : \A a \in PubKeys : \A i \in 1..Len(authored[a]) :
        authored[a][i] \notin delivered[r]
            => /\ \A j \in (i + 1)..Len(authored[a]) :
                    authored[a][j] \in delivered[r]
                        => /\ CounterOf(authored[a][j]) \in DOMAIN Pending(r, a)
                           /\ Pending(r, a)[CounterOf(authored[a][j])] = authored[a][j].data
                           /\ authored[a][j] \notin Range(applied[r])
               /\ partial_cmp(Expected(r, a), CounterOf(authored[a][i])) \in {"Less", "Equal"}
               /\ ValueReflectsApplied(r)

\* Two operations of an author are held back behind a missing one.
C5_Witness ==
    \E r \in Replicas : \E a \in PubKeys : \E i \in 1..Len(authored[a]) :
        /\ authored[a][i] \notin delivered[r]
        /\ Cardinality({j \in (i + 1)..Len(authored[a]) : authored[a][j] \in delivered[r]}) >= 2

\* The largest n such that the n operations a authored after position idx are
\* all buffered on r.
RunAfter(r, a, idx) ==
    CHOOSE n \in 0..(Len(authored[a]) - idx) :
        /\ \A t \in 1..n : CounterOf(authored[a][idx + t]) \in DOMAIN Pending(r, a)
        /\ (idx + n < Len(authored[a])
               => CounterOf(authored[a][idx + n + 1]) \notin DOMAIN Pending(r, a))

\* C6 (gap fill drains in one call): when r expects the counter of a's
\* operation op and buffers the m operations a authored next (and maybe more
\* beyond a further gap), one apply of op applies op and those m in authoring
\* order, folds their descriptions in that order, leaves the expected counter
\* right after the last of them, and leaves buffered exactly the operations
\* beyond the gap.
C6_GapFill ==
    \A r \in Replicas : \A a \in PubKeys : \A op \in Range(authored[a]) :
        (~panicked[r] /\ CounterOf(op) = Expected(r, a))
            => LET idx == IndexOf(a, op)
                   m == RunAfter(r, a, idx)
                   run == SubSeq(authored[a], idx, idx + m)
                   lastop == authored[a][idx + m]
                   rest == {c \in DOMAIN Pending(r, a) :
                               \A t \in 1..m : c # CounterOf(authored[a][idx + t])}
               IN  \A o \in apply(crdt[r], op) :
                       /\ ~o.panicked
                       /\ o.applied = run
                       /\ [i \in 1..Len(o.folds) |-> o.folds[i][1]]
                              = [i \in 1..Len(SelectSeq(run, IsDesc)) |->
                                    DescOf(SelectSeq(run, IsDesc)[i])]
                       /\ o.crdt.state_vector[a]
                              = increment(CounterOf(lastop), lastop.data.signature)
                       /\ (rest # {}) => o.crdt.not_yet_applied_operations[a]
                                             = [c \in rest |-> Pending(r, a)[c]]
                       /\ (rest = {}) = (a \notin DOMAIN o.crdt.not_yet_applied_operations)

\* A replica expects an operation, buffers the next one and another one beyond
\* a gap; the apply of the expected one applies two and leaves one buffered.
C6_Witness ==
    \E r \in Replicas : \E a \in PubKeys : \E op \in sent :
        /\ op.user_pub_key = a
        /\ CounterOf(op) = Expected(r, a)
        /\ RunAfter(r, a, IndexOf(a, op)) >= 1
        /\ \E o \in apply(crdt[r], op) :
              Len(o.applied) >= 2 /\ a \in DOMAIN o.crdt.not_yet_applied_operations

\* The signature of op is the one its author's key makes over its payload.
Genuine(op) ==
    op.data.signature
        = sign_detached(serialize(op.data.payload), SecKeyOf(op.user_pub_key))

C8_BadSignatureRecovered ==
    \A r \in Replicas : ~panicked[r]

\* C9 (integrity): every operation applied on a replica and every operation it
\* buffers carries the signature of its author's key over its payload, and is
\* buffered under its own counter.
C9_Integrity ==
    \A r \in Replicas :
        /\ \A op \in Range(applied[r]) : Genuine(op)
        /\ \A a \in DOMAIN crdt[r].not_yet_applied_operations :
              \A c \in DOMAIN crdt[r].not_yet_applied_operations[a] :
                  /\ Genuine([user_pub_key |-> a,
                              data |-> crdt[r].not_yet_applied_operations[a][c]])
                  /\ crdt[r].not_yet_applied_operations[a][c].payload.counter = c

\* A replica has folded a description and buffers an operation behind a gap,
\* and was then handed a tampered copy of a flushed operation.
C9_Witness ==
    \E r \in Replicas : \E a, b \in PubKeys :
        /\ panicked[r]
        /\ Len(FoldCalls(r, a)) >= 1
        /\ Pending(r, b) # EmptyMap
        /\ DeliverableTampered # {}

\* C10 (local authoring folds each description once): on a replica that has
\* only been written to with its own account, the value is the initial value
\* plus the authored descriptions, saturating at the maximum.
C10_LocalAuthoring ==
    \A r \in Replicas : \A k \in PubKeys :
        (Owner(k) = r /\ delivered[r] = Range(authored[k]))
            => crdt[r].value
                   = Min(crdt[r].info.initial_value + SumDescs(authored[k]), NatMax)

\* Three descriptions were authored on a replica and their sum saturated.
C10_Witness ==
    \E r \in Replicas : \E k \in PubKeys :
        /\ Owner(k) = r
        /\ delivered[r] = Range(authored[k])
        /\ Len(AuthoredDescs(k)) >= 3
        /\ crdt[r].info.initial_value + SumDescs(authored[k]) > NatMax
        /\ crdt[r].value = NatMax

\* The sequence number of a counter: Counter::Operation(n, _) carries n,
\* Counter::Initial carries none and precedes 0.
HasNumber(counter, n) == ~is_initial(counter) /\ counter[2] = n

\* r has had one call of apply_desc, made on the empty replica with the
\* account of k, and no operation was delivered to it or flushed since.
OneDescOnEmpty(r, k) ==
    /\ Owner(k) = r
    /\ ~panicked[r]
    /\ Len(AuthoredDescs(k)) = 1
    /\ delivered[r] = Range(authored[k])
    /\ sent \cap Range(authored[k]) = {}

\* C11 as claimed: on an empty replica one call of apply_desc produces exactly
\* one operation; the flush that follows returns a map with exactly one entry,
\* whose operation has counter 0.
C11_OneOperation ==
    \A r \in Replicas : \A k \in PubKeys :
        OneDescOnEmpty(r, k)
            => LET output == flush(crdt[r]).output
               IN  /\ Cardinality(DOMAIN output) = 1
                   /\ \A c \in DOMAIN output : HasNumber(CounterOf(output[c]), 0)

\* C11 as amended: on an empty replica one call of apply_desc(account, d)
\* produces exactly two operations, the Initial operation of the account, with
\* counter Initial(id), and the operation that carries d, with counter
\* Operation(0, signature of the Initial operation); the flush that follows
\* returns exactly these two, each under its counter.
C11_TwoOperations ==
    \A r \in Replicas : \A k \in PubKeys :
        OneDescOnEmpty(r, k)
            => LET output == flush(crdt[r]).output
                   first == authored[k][1]
                   second == authored[k][2]
               IN  /\ Len(authored[k]) = 2
                   /\ Cardinality(DOMAIN output) = 2
                   /\ Range(output) = {first, second}
                   /\ \A c \in DOMAIN output : CounterOf(output[c]) = c
                   /\ ~IsDesc(first)
                   /\ CounterOf(first) = CounterInitial(crdt[r].info.id)
                   /\ IsDesc(second)
                   /\ CounterOf(second) = CounterOperation(0, first.data.signature)

\* One description was authored on an empty replica and nothing was flushed.
C11_Witness ==
    \E r \in Replicas : \E k \in PubKeys :
        /\ OneDescOnEmpty(r, k)
        /\ crdt[r].recently_created_and_applied_operations # EmptyMap
        /\ crdt[r].value = saturating_add(crdt[r].info.initial_value,
                                          DescOf(authored[k][2]))

\* C12 as claimed: the operations an account authors carry the counters
\* 0, 1, 2, ... in authoring order, the k-th one has counter k-1.
C12_CountersFromZero ==
    \A k \in PubKeys : \A i \in DOMAIN authored[k] :
        HasNumber(CounterOf(authored[k][i]), i - 1)

\* C12 as amended: the first operation an account authors is its Initial
\* operation, with counter Initial(id); the k-th operation it authors, k >= 2,
\* carries a description and the counter Operation(k-2, signature of the
\* operation authored just before it), so that each authored operation
\* advances the number by exactly 1.
C12_CounterAllocation ==
    \A k \in PubKeys : \A i \in DOMAIN authored[k] :
        LET op == authored[k][i]
        IN  IF i = 1
            THEN /\ ~IsDesc(op)
                 /\ CounterOf(op) = CounterInitial(crdt[Owner(k)].info.id)
            ELSE /\ IsDesc(op)
                 /\ CounterOf(op)
                        = CounterOperation(i - 2, authored[k][i - 1].data.signature)
                 /\ i > 2 => CounterOf(op)[2] = CounterOf(authored[k][i - 1])[2] + 1

\* An account has authored its Initial operation and three descriptions.
C12_Witness ==
    \E k \in PubKeys :
        /\ Len(authored[k]) = 4
        /\ HasNumber(CounterOf(authored[k][4]), 2)

\* C13 (outbox completeness; each replica is written by the account that owns
\* it): flush returns exactly the operations authored on the replica by
\* apply_desc since its previous flush, or since creation, each under its
\* counter, none missing and none extra, and the outbox is empty immediately
\* after flush.
C13_OutboxComplete ==
    \A r \in Replicas : \A k \in PubKeys :
        Owner(k) = r /\ ~panicked[r]
            => LET f == flush(crdt[r])
                   since == Range(authored[k]) \ sent
               IN  /\ Range(f.output) = since
                   /\ Cardinality(DOMAIN f.output) = Cardinality(since)
                   /\ \A c \in DOMAIN f.output : CounterOf(f.output[c]) = c
                   /\ f.crdt.recently_created_and_applied_operations = EmptyMap

\* A replica that flushed before has authored again and not flushed yet.
C13_Witness ==
    \E r \in Replicas : \E k \in PubKeys :
        /\ Owner(k) = r
        /\ Range(authored[k]) \cap sent # {}
        /\ Cardinality(DOMAIN crdt[r].recently_created_and_applied_operations) >= 2

\* C14 (flush changes only the outbox): value, state_vector and pending are
\* the same after flush as before it, and the operations that were flushed
\* stay reflected in value and in state_vector.
C14_FlushFrame ==
    \A r \in Replicas :
        LET f == flush(crdt[r])
        IN  /\ f.crdt.value = crdt[r].value
            /\ f.crdt.state_vector = crdt[r].state_vector
            /\ f.crdt.not_yet_applied_operations = crdt[r].not_yet_applied_operations
            /\ f.crdt.info = crdt[r].info
            /\ \A k \in PubKeys : \A i \in DOMAIN authored[k] :
                   Owner(k) = r /\ authored[k][i] \in sent
                       => /\ Len(AppliedBy(r, k)) >= i
                          /\ AppliedBy(r, k)[i] = authored[k][i]
                          /\ k \in DOMAIN f.crdt.state_vector
                          /\ \E n \in (i - 1)..Len(authored[k]) :
                                 HasNumber(f.crdt.state_vector[k], n)
                          /\ ValueReflectsApplied(r)

\* A replica has flushed a description it authored; it holds a buffered
\* operation of another author and its outbox is empty again.
C14_Witness ==
    \E r \in Replicas : \E k, b \in PubKeys :
        /\ Owner(k) = r
        /\ \E op \in Range(authored[k]) \cap sent : IsDesc(op)
        /\ crdt[r].recently_created_and_applied_operations = EmptyMap
        /\ Pending(r, b) # EmptyMap
        /\ crdt[r].value # crdt[r].info.initial_value

\* The number a state_vector entry stands for: Counter::Initial, the value of
\* an absent entry, stands for 0 and Counter::Operation(n, _) for n.
NumberOf(counter) == IF is_initial(counter) THEN 0 ELSE counter[2]

\* C15 (state-vector invariant R1): in every reachable replica state and for
\* every author a, the number of state_vector[a], 0 when the entry is absent,
\* equals the number of operations of a that have been folded into value.
C15_StateVectorCountsFolds ==
    \A r \in Replicas :
        /\ ValueReflectsApplied(r)
        /\ \A a \in PubKeys :
               /\ NumberOf(Expected(r, a)) = Len(FoldCalls(r, a))
               /\ a \notin DOMAIN crdt[r].state_vector => AppliedBy(r, a) = <<>>

\* A replica has folded two operations of a remote author, and another replica
\* has no state_vector entry for an author.
C15_Witness ==
    /\ \E r \in Replicas : \E a \in PubKeys :
           /\ Owner(a) # r
           /\ Len(FoldCalls(r, a)) >= 2
           /\ HasNumber(crdt[r].state_vector[a], 2)
    /\ \E r \in Replicas : \E b \in PubKeys : b \notin DOMAIN crdt[r].state_vector

\* Counter c is strictly ahead of the state_vector entry sv.
Ahead(c, sv) == ~is_initial(c) /\ (is_initial(sv) \/ c[2] > sv[2])

\* C16 (pending invariant R2): after every completed apply or apply_desc,
\* every counter buffered for an author a is strictly ahead of state_vector[a],
\* so that none is lower than or equal to a counter of a already folded, and no
\* author maps to an empty submap of not_yet_applied_operations.
C16_PendingAhead ==
    \A r \in Replicas :
        ~panicked[r]
            => \A a \in DOMAIN crdt[r].not_yet_applied_operations :
                   LET pending == crdt[r].not_yet_applied_operations[a]
                   IN  /\ pending # EmptyMap
                       /\ \A c \in DOMAIN pending :
                              /\ Ahead(c, Expected(r, a))
                              /\ \A op \in Range(AppliedBy(r, a)) :
                                     Ahead(c, CounterOf(op))

\* A replica that applied the Initial operation of a remote author holds two
\* later operations of that author in the buffer, the one between them and the
\* Initial operation not being delivered.
C16_Witness ==
    \E r \in Replicas : \E a \in PubKeys :
        /\ Owner(a) # r
        /\ Len(AppliedBy(r, a)) >= 1
        /\ HasNumber(Expected(r, a), 0)
        /\ Cardinality(DOMAIN Pending(r, a)) >= 2

\* C17 (counter uniqueness I2): no two distinct operations authored through
\* apply_desc with the same account share the same counter, nor the same
\* counter number, for any interleaving of apply_desc with apply of other
\* operations and with flush on the replica of the account.
C17_CounterUnique ==
    \A k \in PubKeys : \A i, j \in DOMAIN authored[k] :
        i # j
            => /\ authored[k][i] # authored[k][j]
               /\ CounterOf(authored[k][i]) # CounterOf(authored[k][j])
               /\ is_initial(CounterOf(authored[k][i]))
                      => ~is_initial(CounterOf(authored[k][j]))
               /\ \A n \in 0..Len(authored[k]) :
                      ~(/\ HasNumber(CounterOf(authored[k][i]), n)
                        /\ HasNumber(CounterOf(authored[k][j]), n))

\* An account authored three operations on a replica that flushed and that
\* applied an operation of another author in between.
C17_Witness ==
    \E k, b \in PubKeys :
        /\ b # k
        /\ Len(authored[k]) >= 3
        /\ authored[k][2] \in sent
        /\ authored[k][3] \notin sent
        /\ Len(AppliedBy(Owner(k), b)) >= 1

\* op is validly signed and its (author, counter) is occupied in the buffer of
\* r by a different signed payload.
Collides(r, op) ==
    /\ ~panicked[r]
    /\ Genuine(op)
    /\ CounterOf(op) \in DOMAIN Pending(r, op.user_pub_key)
    /\ Pending(r, op.user_pub_key)[CounterOf(op)] # op.data

\* The payload buffered for op's author under op's counter in replica self.
BufferedAt(self, op) ==
    self.not_yet_applied_operations[op.user_pub_key][CounterOf(op)]

\* C18 (first-seen wins in the buffer): when apply receives a
\* validly signed operation whose (author, counter) is occupied in the buffer
\* by a different signed payload, the entry already there is kept, and the
\* payload later folded at that counter is the first one delivered.
C18_FirstSeenWins ==
    \A r \in Replicas : \A op \in sent \cup DeliverableForked :
        Collides(r, op)
            => \A o \in apply(crdt[r], op) :
                   /\ ~o.panicked
                   /\ op.user_pub_key \in DOMAIN o.crdt.not_yet_applied_operations
                   /\ CounterOf(op) \in
                          DOMAIN o.crdt.not_yet_applied_operations[op.user_pub_key]
                   /\ BufferedAt(o.crdt, op) = BufferedAt(crdt[r], op)
                   /\ \A q \in sent \cup DeliverableForked :
                      \A o2 \in apply(o.crdt, q) :
                      \A x \in Range(o2.applied) :
                          x.user_pub_key = op.user_pub_key /\ CounterOf(x) = CounterOf(op)
                              => x.data = BufferedAt(crdt[r], op)

\* C19 (Nat fold is total saturating addition): for every Nat value v and
\* description d the fold returns min(v + d, maximum), a value of the type; it
\* never wraps around, never fails, and is the same for every author and
\* counter.
C19_SaturatingFold ==
    /\ nat.first_second \in 0..NatMax
    /\ nat.second_first \in 0..NatMax
    /\ nat.folded >= 1
           => /\ nat.first_second >= nat.self
              /\ nat.second_first >= nat.self
    /\ nat.folded = 1
           => /\ nat.first_second = Min(nat.self + nat.first, NatMax)
              /\ nat.second_first = Min(nat.self + nat.second, NatMax)
    /\ nat.folded = 2
           => nat.first_second
                  = Min(Min(nat.self + nat.first, NatMax) + nat.second, NatMax)
    /\ \A k \in PubKeys : \A c \in FoldCounters :
           apply_without_idempotency_check(nat.self, nat.first, k, c)
               = Min(nat.self + nat.first, NatMax)

\* A fold whose exact sum is above the maximum was made, next to one whose
\* sum stays below it.
C19_Witness ==
    /\ nat.folded = 1
    /\ nat.self + nat.first > NatMax
    /\ nat.first_second = NatMax
    /\ nat.self + nat.second < NatMax
    /\ nat.second > 0

\* C20 (Nat commutes): for every initial value v and descriptions d1, d2,
\* folding d1 then d2 gives the same Nat as folding d2 then d1, also when one or
\* both additions saturate at the maximum.
C20_NatCommutes ==
    nat.folded = 2 => nat.first_second = nat.second_first

\* Both orders were folded; in one order the first addition saturates, in the
\* other only the second does.
C20_Witness ==
    /\ nat.folded = 2
    /\ nat.first # nat.second
    /\ nat.self + nat.first > NatMax
    /\ nat.self + nat.second < NatMax
    /\ nat.first_second = NatMax

\* The entry of author b in map m of a replica, absent entries told apart.
EntryOf(m, b) == IF b \in DOMAIN m THEN <<m[b]>> ELSE <<>>

\* C21 (authors are independent): apply of an operation of author a leaves
\* state_vector[b] and not_yet_applied_operations[b] unchanged for every other
\* author b, and an operation of b at b's next expected counter is applied, and
\* its description folded, on arrival, whatever gaps or buffered operations
\* exist for a.
C21_AuthorsIndependent ==
    \A r \in Replicas : \A op \in sent :
        ~panicked[r]
            => \A o \in apply(crdt[r], op) :
                   /\ ~o.panicked
                   /\ \A b \in PubKeys \ {op.user_pub_key} :
                          /\ EntryOf(o.crdt.state_vector, b)
                                 = EntryOf(crdt[r].state_vector, b)
                          /\ EntryOf(o.crdt.not_yet_applied_operations, b)
                                 = EntryOf(crdt[r].not_yet_applied_operations, b)
                   /\ CounterOf(op) = Expected(r, op.user_pub_key)
                          => /\ o.applied # <<>>
                             /\ Head(o.applied) = op
                             /\ IsDesc(op)
                                    => /\ o.folds # <<>>
                                       /\ Head(o.folds)[1] = DescOf(op)
                                       /\ o.crdt.value
                                              >= Min(crdt[r].value + DescOf(op), NatMax)

\* A replica holds a buffered operation of author a behind a gap, and an
\* operation of another author b, at b's next expected counter, was applied
\* and folded there.
C21_Witness ==
    \E r \in Replicas : \E a, b \in PubKeys :
        /\ a # b
        /\ Pending(r, a) # EmptyMap
        /\ AppliedBy(r, a) = <<>>
        /\ Len(AppliedBy(r, b)) >= 1
        /\ \E op \in sent : op.user_pub_key = b /\ CounterOf(op) = Expected(r, b)

\* C22 (the fold receives the counter of the folded operation): when apply
\* folds an operation of author a whose counter equals the expected counter,
\* apply_without_idempotency_check is called with author a and with that same
\* counter, the state vector being advanced only as the next expected value.
C22_FoldGetsOwnCounter ==
    \A r \in Replicas : \A op \in sent :
        ~panicked[r]
            => \A o \in apply(crdt[r], op) :
                   LET descs == SelectSeq(o.applied, IsDesc)
                   IN  /\ Len(o.folds) = Len(descs)
                       /\ \A i \in DOMAIN o.folds :
                              /\ o.folds[i][1] = DescOf(descs[i])
                              /\ o.folds[i][2] = descs[i].user_pub_key
                              /\ o.folds[i][3] = CounterOf(descs[i])

\* C23 (self-apply cannot fail): in every reachable replica state, also when
\* not_yet_applied_operations or state_vector already hold operations of the
\* same account, apply_desc(account, d) completes without aborting, the
\* operation it authors is folded into value during the call, and it is
\* recorded in the outbox under its counter.
C23_SelfApplyCompletes ==
    \A r \in Replicas : \A k \in PubKeys : \A d \in Descriptions :
        ~panicked[r]
            => \A o \in apply_desc(crdt[r], AccountOf(k), d, clock[r]) :
                   /\ ~o.panicked
                   /\ o.created # <<>>
                   /\ LET op == o.created[Len(o.created)]
                          outbox == o.crdt.recently_created_and_applied_operations
                      IN  /\ IsDesc(op) /\ DescOf(op) = d
                          /\ \E i \in DOMAIN o.applied : o.applied[i] = op
                          /\ \E i \in DOMAIN o.folds : o.folds[i][1] = d
                          /\ CounterOf(op) \in DOMAIN outbox
                          /\ outbox[CounterOf(op)] = op

\* What is buffered in replica before is, in replica after, still buffered
\* with the same payload, unless it is among the operations applied between.
KeptOrApplied(before, after, applied_between) ==
    \A a \in DOMAIN before.not_yet_applied_operations :
    \A c \in DOMAIN before.not_yet_applied_operations[a] :
        LET data == before.not_yet_applied_operations[a][c]
        IN  \/ /\ a \in DOMAIN after.not_yet_applied_operations
               /\ c \in DOMAIN after.not_yet_applied_operations[a]
               /\ after.not_yet_applied_operations[a][c] = data
            \/ \E i \in DOMAIN applied_between :
                   applied_between[i] = [user_pub_key |-> a, data |-> data]

\* C24 (buffered operations are never lost): an operation that apply has
\* placed in not_yet_applied_operations[a] stays there across every later
\* apply, apply_desc and flush that completes, until it is applied and folded
\* into value; it is never removed without having been folded.
C24_BufferedKept ==
    \A r \in Replicas :
        ~panicked[r]
            => /\ \A op \in sent \cup DeliverableForked :
                  \A o \in apply(crdt[r], op) :
                      ~o.panicked => KeptOrApplied(crdt[r], o.crdt, o.applied)
               /\ \A k \in PubKeys : \A d \in Descriptions :
                  \A o \in apply_desc(crdt[r], AccountOf(k), d, clock[r]) :
                      Owner(k) = r /\ ~o.panicked
                          => KeptOrApplied(crdt[r], o.crdt, o.applied)
               /\ KeptOrApplied(crdt[r], flush(crdt[r]).crdt, <<>>)

\* C25 (saving never overwrites): when save_operations finds that the file it
\* wants to write for an operation already exists, the conflict is surfaced,
\* by a panic, and every file that existed before the save is there after it
\* with the content it had.
C25_SaveKeepsFiles ==
    \A r \in Replicas :
        disk.open[r] /\ ~panicked[r]
            => LET output == flush(crdt[r]).output
               IN  \A out \in save_operations(output, disk.files) :
                       /\ \A path \in DOMAIN disk.files :
                              /\ path \in DOMAIN out.files
                              /\ out.files[path] = disk.files[path]
                       /\ (\E c \in DOMAIN output :
                              to_write_file_path(c, output[c]) \in DOMAIN disk.files)
                              => out.panicked

\* A process is about to save an operation whose file another process wrote
\* in the meantime, with another content.
C25_Witness ==
    \E r \in Replicas :
        /\ disk.open[r]
        /\ ~panicked[r]
        /\ \E c \in DOMAIN crdt[r].recently_created_and_applied_operations :
               LET op == crdt[r].recently_created_and_applied_operations[c]
                   path == to_write_file_path(c, op)
               IN  /\ path \in DOMAIN disk.files
                   /\ disk.files[path] # op.data

\* C26 (sessions continue the author's sequence): when the driver is started
\* again and again on a project, each session creating a replica from the
\* project file, restoring every saved operation through apply, authoring with
\* the directory's account, flushing and saving, no save meets an existing
\* file, no restore fails, every flushed operation is saved, and the value a
\* session restores is the value the previous session ended with.
C26_SessionsContinue ==
    /\ \A r \in Replicas : ~panicked[r]
    /\ \A r \in Replicas :
           disk.open[r]
               => LET output == flush(crdt[r]).output
                  IN  \A out \in save_operations(output, disk.files) :
                          /\ ~out.panicked
                          /\ \A c \in DOMAIN output :
                                 /\ to_write_file_path(c, output[c]) \in DOMAIN out.files
                                 /\ out.files[to_write_file_path(c, output[c])]
                                        = output[c].data
    /\ (\A q \in Replicas : ~disk.open[q])
           => \A r \in Replicas :
              \A o \in restore_operations(create_crdt(crdt[r].info), disk.files) :
                  /\ ~o.panicked
                  /\ o.crdt.not_yet_applied_operations = EmptyMap
                  /\ Len(o.applied) = Cardinality(DOMAIN disk.files)
                  /\ disk.ended_with # <<>> => o.crdt.value = disk.ended_with[1]

\* The third session restored operations saved by two earlier sessions and
\* authored one more.
C26_Witness ==
    \E r \in Replicas :
        /\ disk.sessions = 3
        /\ disk.open[r]
        /\ Cardinality(DOMAIN disk.files) >= 3
        /\ Len(applied[r]) > Cardinality(DOMAIN disk.files)
        /\ crdt[r].recently_created_and_applied_operations # EmptyMap
        /\ crdt[r].value > disk.ended_with[1]

\* C27 (signature chain): an operation of author a with counter
\* Operation(n, s) is applied, and folded, only when s is the signature of the
\* operation of a applied immediately before it and n is the number after that
\* one's, and an Initial operation is applied only first and only when its id
\* is the replica's info.id; so an operation authored for another CRDT
\* instance, or one that continues a history other than the one already
\* applied, is never folded into value.
C27_SignatureChain ==
    \A r \in Replicas : \A a \in PubKeys :
        LET seq == AppliedBy(r, a)
        IN  /\ \A i \in DOMAIN seq :
                   IF i = 1
                   THEN /\ ~IsDesc(seq[i])
                        /\ CounterOf(seq[i]) = <<"Initial", crdt[r].info.id>>
                   ELSE /\ IsDesc(seq[i])
                        /\ CounterOf(seq[i])
                               = <<"Operation", i - 2, seq[i - 1].data.signature>>
            /\ \A op \in Range(seq) : op \notin DeliverableForeign
            /\ ValueReflectsApplied(r)

\* A replica applied, of an author that signed two histories, the Initial
\* operation, the second payload signed at number 0 and the operation that
\* continues it, while the operations of the first history were flushed too.
C27_Witness ==
    \E r \in Replicas : \E a \in PubKeys :
        /\ ~panicked[r]
        /\ Len(AppliedBy(r, a)) = 3
        /\ AppliedBy(r, a)[2] \in DeliverableForked
        /\ AppliedBy(r, a)[3] \in DeliverableContinued
        /\ Range(authored[a]) \subseteq sent

\* The validly signed operations the transport can hand to apply.
DeliverableSigned ==
    {op \in sent \cup DeliverableForked \cup DeliverableContinued
                 \cup DeliverableForeign : Genuine(op)}

\* C28 (apply never aborts on validly signed input): for every reachable
\* replica state and every operation whose signature verifies, also of an
\* author who signed two operations at one sequence number or whose Initial
\* operation names another instance id, apply returns a replica state and does
\* not panic.
C28_ApplyReturns ==
    \A r \in Replicas : \A op \in DeliverableSigned :
        ~panicked[r] => \A o \in apply(crdt[r], op) : ~o.panicked

\* C29 (apply is deterministic): the outcome of apply, the resulting value,
\* state_vector and not_yet_applied_operations or a failure, depends only on
\* the replica state and the delivered operation, not on the order in which
\* the hash map hands over the buffered entries or in which the sort leaves
\* entries that are incomparable.
C29_ApplyDeterministic ==
    \A r \in Replicas : \A op \in DeliverableSigned :
        ~panicked[r]
            => \A o1, o2 \in apply(crdt[r], op) :
                   /\ o1.panicked = o2.panicked
                   /\ o1.crdt.value = o2.crdt.value
                   /\ o1.crdt.state_vector = o2.crdt.state_vector
                   /\ o1.crdt.not_yet_applied_operations
                          = o2.crdt.not_yet_applied_operations

\* C30 (the outbox with several accounts on one replica): when two or more
\* accounts author on the same replica before a flush, every operation those
\* calls authored, the Initial operation of each account included, is in the
\* map flush returns.
C30_OutboxKeepsAll ==
    ~panicked[SharedReplica]
        => \A k \in PubKeys : \A i \in DOMAIN authored[k] :
               authored[k][i] \notin sent
                   => authored[k][i] \in Range(flush(crdt[SharedReplica]).output)

====
